---- MODULE Spec2Model ----
(***************************************************************************)
(* A model of the `statemachine!` procedural macro (src/src/lib.rs) and of *)
(* the evaluator it generates.  The macro is a four step pipeline over a   *)
(* token stream: parse, validate, build the model, emit.  The generated    *)
(* `process_event` is then called by a wrapper that holds a state value    *)
(* (src/tests/convert.rs, src/examples/demo.rs).                           *)
(***************************************************************************)
EXTENDS Integers, Sequences, FiniteSets, TLC

(***************************************************************************)
(* Bounds of the checked input sets.                                       *)
(***************************************************************************)
MaxTransitions == 2
MaxPatternStates == 2
MaxEvents == 2
MaxClauses == 3
MaxOrderedRules == 3
MaxCallers == 2
MaxDuplicateRules == 3

StateIds == {"A", "B"}
EventIds == {"X", "Y"}

(***************************************************************************)
(* Tokens.  A token is an identifier, a punctuation mark or a delimited    *)
(* group that owns its own token sequence (proc_macro token trees).  `_`   *)
(* is not an identifier for syn, so it is modelled as punctuation.         *)
(***************************************************************************)
Id(v) == [t |-> "Ident", v |-> v, s |-> <<>>]
P(v) == [t |-> "Punct", v |-> v, s |-> <<>>]
Bracket(s) == [t |-> "Group", v |-> "Bracket", s |-> s]
Brace(s) == [t |-> "Group", v |-> "Brace", s |-> s]

\* Option<T>: None is the empty sequence, Some(x) is <<x>>.
None == <<>>
Some(x) == <<x>>
IsSome(o) == Len(o) = 1

\* ParseStream::peek / peek2 for identifiers and punctuation.
PeekIdent(input) == Len(input) >= 1 /\ input[1].t = "Ident"
PeekPunct(input, c) == Len(input) >= 1 /\ input[1].t = "Punct" /\ input[1].v = c
Peek2Punct(input, c) == Len(input) >= 2 /\ input[2].t = "Punct" /\ input[2].v = c
PeekGroup(input, d) == Len(input) >= 1 /\ input[1].t = "Group" /\ input[1].v = d

Rest(input, n) == SubSeq(input, n + 1, Len(input))

\* syn::Result of a parse function: the value and the unconsumed tokens, or
\* the error.
Ok(val, rest) == [ok |-> TRUE, val |-> val, rest |-> rest, err |-> ""]
Err(kind) == [ok |-> FALSE, val |-> <<>>, rest |-> <<>>, err |-> kind]

(***************************************************************************)
(* StatePattern::parse, lib.rs 138-172.  Each `?` of the source is an      *)
(* operator that takes the result so far and either passes the error on or *)
(* continues with the rest of the function.                                *)
(***************************************************************************)
StateEntry(ident, initial) == [ident |-> ident, initial |-> initial]

Wildcard == [kind |-> "Wildcard", states |-> <<>>]

\* lines 163-170: one collected state is a Single, more are a Multiple.
MakePattern(states) ==
    IF Len(states) = 1
    THEN [kind |-> "Single", states |-> states]
    ELSE [kind |-> "Multiple", states |-> states]

\* lines 151-152 and 160: the identifier of a source state.
ParseStateIdent(input, initial) ==
    IF PeekIdent(input)
    THEN Ok(StateEntry(input[1].v, initial), Rest(input, 1))
    ELSE Err("ExpectedIdentifier")

\* lines 146-152 and 156-160: an optional `*`, then an identifier.
ParseMarkedState(input) ==
    IF PeekPunct(input, "*")
    THEN ParseStateIdent(Rest(input, 1), TRUE)
    ELSE ParseStateIdent(input, FALSE)

\* lines 154-161: the `|` loop.
RECURSIVE ParsePatternLoop(_, _)
RECURSIVE PushParsedState(_, _)
PushParsedState(r, states) ==
    IF r.ok THEN ParsePatternLoop(r.rest, Append(states, r.val)) ELSE r

ParsePatternLoop(input, states) ==
    IF PeekPunct(input, "|")
    THEN PushParsedState(ParseMarkedState(Rest(input, 1)), states)
    ELSE Ok(MakePattern(states), input)

StatePatternParse(input) ==
    IF PeekPunct(input, "_")
    THEN Ok(Wildcard, Rest(input, 1))
    ELSE PushParsedState(ParseMarkedState(input), <<>>)

(***************************************************************************)
(* Transition::parse, lib.rs 105-136.                                      *)
(***************************************************************************)
Internal == [kind |-> "Internal", ident |-> ""]
TargetOf(ident) == [kind |-> "State", ident |-> ident]

\* lines 113-116.
RECURSIVE ParseEventsLoop(_, _)
ParseEventsLoop(input, events) ==
    IF PeekPunct(input, "|") /\ ~Peek2Punct(input, "*")
    THEN IF PeekIdent(Rest(input, 1))
         THEN ParseEventsLoop(Rest(input, 2), Append(events, input[2].v))
         ELSE Err("ExpectedIdentifier")
    ELSE Ok(events, input)

\* A target parser that keeps an omitted target apart from `= _`.
ParseTargetOmittedApart(input) ==
    IF PeekPunct(input, "=")
    THEN IF PeekPunct(Rest(input, 1), "_")
         THEN Ok(Internal, Rest(input, 2))
         ELSE IF PeekIdent(Rest(input, 1))
              THEN Ok(TargetOf(input[2].v), Rest(input, 2))
              ELSE Err("ExpectedIdentifier")
    ELSE Ok([kind |-> "Omitted", ident |-> ""], input)

\* lines 118-128.
ParseTarget(input) ==
    IF PeekPunct(input, "=")
    THEN IF PeekPunct(Rest(input, 1), "_")
         THEN Ok(Internal, Rest(input, 2))
         ELSE IF PeekIdent(Rest(input, 1))
              THEN Ok(TargetOf(input[2].v), Rest(input, 2))
              ELSE Err("ExpectedIdentifier")
    ELSE Ok(Internal, input)

\* lines 130-134.
MakeTransition(states, events, tg) ==
    IF tg.ok
    THEN Ok([states |-> states, events |-> events, target |-> tg.val], tg.rest)
    ELSE tg

\* lines 118-134, after the events.
ParseAfterEvents(states, ev) ==
    IF ev.ok THEN MakeTransition(states, ev.val, ParseTarget(ev.rest)) ELSE ev

\* lines 108-134, after the state pattern.
ParseAfterPattern(sp) ==
    IF ~sp.ok THEN sp
    ELSE IF ~PeekPunct(sp.rest, "+") THEN Err("ExpectedPlus")
    ELSE IF ~PeekIdent(Rest(sp.rest, 1)) THEN Err("ExpectedIdentifier")
    ELSE ParseAfterEvents(sp.val, ParseEventsLoop(Rest(sp.rest, 2), <<sp.rest[2].v>>))

TransitionParse(input) == ParseAfterPattern(StatePatternParse(input))

(***************************************************************************)
(* Punctuated::parse_terminated over a group's content (lib.rs 65, 73,     *)
(* 82): values separated by commas, a trailing comma allowed, the whole    *)
(* content consumed.                                                       *)
(***************************************************************************)
RECURSIVE ParseTerminatedIdents(_, _)
ParseTerminatedIdents(content, acc) ==
    IF content = <<>> THEN Ok(acc, <<>>)
    ELSE IF ~PeekIdent(content) THEN Err("ExpectedIdentifier")
    ELSE IF Len(content) = 1 THEN Ok(Append(acc, content[1].v), <<>>)
    ELSE IF ~PeekPunct(Rest(content, 1), ",") THEN Err("ExpectedComma")
    ELSE ParseTerminatedIdents(Rest(content, 2), Append(acc, content[1].v))

RECURSIVE ParseTerminatedTransitions(_, _)
RECURSIVE PushParsedTransition(_, _)
PushParsedTransition(r, acc) ==
    IF ~r.ok THEN r
    ELSE IF r.rest = <<>> THEN Ok(Append(acc, r.val), <<>>)
    ELSE IF ~PeekPunct(r.rest, ",") THEN Err("ExpectedComma")
    ELSE ParseTerminatedTransitions(Rest(r.rest, 1), Append(acc, r.val))

ParseTerminatedTransitions(content, acc) ==
    IF content = <<>> THEN Ok(acc, <<>>)
    ELSE PushParsedTransition(TransitionParse(content), acc)

\* lines 59-61, 67-69, 75-77: an optional comma after a header clause.
SkipComma(input) == IF PeekPunct(input, ",") THEN Rest(input, 1) ELSE input

(***************************************************************************)
(* StateMachine::parse, lib.rs 45-103.  The arguments after the stream are *)
(* the three `let mut` locals of lines 47-49.                              *)
(***************************************************************************)
\* lines 63-65 and 71-73: a bracketed, comma separated identifier list.
ParseDerives(body) ==
    IF PeekGroup(body, "Bracket")
    THEN ParseTerminatedIdents(body[1].s, <<>>)
    ELSE Err("ExpectedBrackets")

\* lines 79-82.
ParseTransitionsBlock(body) ==
    IF PeekGroup(body, "Brace")
    THEN ParseTerminatedTransitions(body[1].s, <<>>)
    ELSE Err("ExpectedBraces")

\* lines 83-89.
MakeStateMachine(tl, rest, name, derive_states, derive_events) ==
    IF tl.ok
    THEN Ok([name |-> name, derive_states |-> derive_states,
             derive_events |-> derive_events, transitions |-> tl.val], rest)
    ELSE tl

RECURSIVE StateMachineParse(_, _, _, _)
RECURSIVE SetDeriveStates(_, _, _, _)
RECURSIVE SetDeriveEvents(_, _, _, _)
\* A derive_states clause that forgets the name read before it.
RECURSIVE SetDeriveStatesForgetName(_, _, _, _)
SetDeriveStatesForgetName(d, rest, name, derive_events) ==
    IF d.ok THEN StateMachineParse(SkipComma(rest), None, Some(d.val), derive_events)
    ELSE d

\* lines 66-69.
SetDeriveStates(d, rest, name, derive_events) ==
    IF d.ok THEN StateMachineParse(SkipComma(rest), name, Some(d.val), derive_events)
    ELSE d

\* lines 74-77.
SetDeriveEvents(d, rest, name, derive_states) ==
    IF d.ok THEN StateMachineParse(SkipComma(rest), name, derive_states, Some(d.val))
    ELSE d

\* A clause parser that takes a clause of any other name for a `name` clause.
RECURSIVE ParseClauseAnyName(_, _, _, _, _)
ParseClauseAnyName(ident, body, name, derive_states, derive_events) ==
    IF ident = "derive_states"
    THEN SetDeriveStates(ParseDerives(body), Rest(body, 1), name, derive_events)
    ELSE IF ident = "derive_events"
    THEN SetDeriveEvents(ParseDerives(body), Rest(body, 1), name, derive_states)
    ELSE IF ident = "transitions"
    THEN MakeStateMachine(ParseTransitionsBlock(body), Rest(body, 1), name,
                          derive_states, derive_events)
    ELSE IF PeekIdent(body)
    THEN StateMachineParse(SkipComma(Rest(body, 1)), name, derive_states, derive_events)
    ELSE Err("ExpectedIdentifier")

\* A clause parser that keeps the first `name` it has read.
RECURSIVE ParseClauseFirstName(_, _, _, _, _)
ParseClauseFirstName(ident, body, name, derive_states, derive_events) ==
    IF ident = "name"
    THEN IF PeekIdent(body)
         THEN StateMachineParse(SkipComma(Rest(body, 1)),
                                IF IsSome(name) THEN name ELSE Some(body[1].v),
                                derive_states, derive_events)
         ELSE Err("ExpectedIdentifier")
    ELSE IF ident = "derive_states"
    THEN SetDeriveStates(ParseDerives(body), Rest(body, 1), name, derive_events)
    ELSE IF ident = "derive_events"
    THEN SetDeriveEvents(ParseDerives(body), Rest(body, 1), name, derive_states)
    ELSE IF ident = "transitions"
    THEN MakeStateMachine(ParseTransitionsBlock(body), Rest(body, 1), name,
                          derive_states, derive_events)
    ELSE Err("UnknownClause")

\* lines 57-95: the clause named by `ident`; `body` is what follows `ident :`.
RECURSIVE ParseClause(_, _, _, _, _)
ParseClause(ident, body, name, derive_states, derive_events) ==
    IF ident = "name"
    THEN IF PeekIdent(body)
         THEN StateMachineParse(SkipComma(Rest(body, 1)), Some(body[1].v),
                                derive_states, derive_events)
         ELSE Err("ExpectedIdentifier")
    ELSE IF ident = "derive_states"
    THEN SetDeriveStates(ParseDerives(body), Rest(body, 1), name, derive_events)
    ELSE IF ident = "derive_events"
    THEN SetDeriveEvents(ParseDerives(body), Rest(body, 1), name, derive_states)
    ELSE IF ident = "transitions"
    THEN MakeStateMachine(ParseTransitionsBlock(body), Rest(body, 1), name,
                          derive_states, derive_events)
    ELSE Err("UnknownClause")

\* lines 51-101: the loop runs while the next token is no identifier or is an
\* identifier followed by `:`.
StateMachineParse(input, name, derive_states, derive_events) ==
    IF ~PeekIdent(input) \/ Peek2Punct(input, ":")
    THEN IF PeekIdent(input)
         THEN ParseClause(input[1].v, Rest(input, 2), name, derive_states,
                          derive_events)
         ELSE Err("ExpectedIdentifier")
    ELSE Err("MissingTransitionsBlock")

\* syn rejects tokens the parser left unconsumed (parse_macro_input!, 212).
RejectUnconsumed(r) == IF r.ok /\ r.rest # <<>> THEN Err("UnexpectedToken") ELSE r

\* parse_macro_input!(input as StateMachine), lib.rs 212.
ParseMacroInput(input) == RejectUnconsumed(StateMachineParse(input, None, None, None))

(***************************************************************************)
(* validate_no_duplicate_transitions, lib.rs 174-208.                      *)
(***************************************************************************)
\* lines 178-186: the concrete source states of a transition; a wildcard
\* rule is skipped (`continue`).
StateIdents(transition) ==
    [i \in 1..Len(transition.states.states) |-> transition.states.states[i].ident]

\* The keys of a rule with one source state only; any other rule is skipped.
TransitionKeysSingleOnly(transition) ==
    IF transition.states.kind # "Single" THEN <<>>
    ELSE [k \in 1..Len(transition.events) |->
            <<transition.states.states[1].ident, transition.events[k]>>]

\* The keys of a rule where the wildcard counts as a source state named `_`.
TransitionKeysWithWildcard(transition) ==
    IF transition.states.kind = "Wildcard"
    THEN [k \in 1..Len(transition.events) |-> <<"_", transition.events[k]>>]
    ELSE [k \in 1..(Len(transition.states.states) * Len(transition.events)) |->
            <<transition.states.states[((k - 1) \div Len(transition.events)) + 1].ident,
              transition.events[((k - 1) % Len(transition.events)) + 1]>>]

\* The keys of one transition with the events outer and the states inner.
TransitionKeysEventsOuter(transition) ==
    IF transition.states.kind = "Wildcard" THEN <<>>
    ELSE [k \in 1..(Len(transition.states.states) * Len(transition.events)) |->
            <<transition.states.states[((k - 1) % Len(transition.states.states)) + 1].ident,
              transition.events[((k - 1) \div Len(transition.states.states)) + 1]>>]

\* lines 188-190: the keys of one transition in scan order, states outer,
\* events inner.
TransitionKeys(transition) ==
    IF transition.states.kind = "Wildcard" THEN <<>>
    ELSE LET idents == StateIdents(transition)
             m == Len(transition.events)
         IN [k \in 1..(Len(idents) * m) |->
                <<idents[((k - 1) \div m) + 1], transition.events[((k - 1) % m) + 1]>>]

RECURSIVE ScanKeys(_)
ScanKeys(transitions) ==
    IF transitions = <<>> THEN <<>>
    ELSE TransitionKeys(Head(transitions)) \o ScanKeys(Tail(transitions))

Valid == [ok |-> TRUE, state |-> "", event |-> ""]
Duplicate(key) == [ok |-> FALSE, state |-> key[1], event |-> key[2]]

\* lines 192-201: `seen.insert` fails on a key already present.
RECURSIVE InsertKeys(_, _)
InsertKeys(keys, seen) ==
    IF keys = <<>> THEN Valid
    ELSE IF Head(keys) \in seen THEN Duplicate(Head(keys))
    ELSE InsertKeys(Tail(keys), seen \cup {Head(keys)})

validate_no_duplicate_transitions(transitions) ==
    InsertKeys(ScanKeys(transitions), {})

(***************************************************************************)
(* The model builder, lib.rs 218-278.                                      *)
(***************************************************************************)
\* A State type that is called `State` whatever the `name` clause says.
StateNameBare(name) == "State"

\* lines 218-228.
StateName(name) == IF IsSome(name) THEN name[1] \o "State" ELSE "State"
EventName(name) == IF IsSome(name) THEN name[1] \o "Event" ELSE "Event"

\* A push that does not look for the identifier in the list.
PushAlways(list, ident) == Append(list, ident)

\* lines 237-239, 246-248, 258-260, 264-266.
PushUnique(list, ident) ==
    IF \E i \in 1..Len(list) : list[i] = ident THEN list ELSE Append(list, ident)

EmptyModel == [all_states |-> <<>>, all_events |-> <<>>, initial_state |-> None]

\* One source state, where a later `*` replaces the initial state.
RegisterStateOverwrite(model, entry) ==
    [model EXCEPT
        !.all_states = PushUnique(@, entry.ident),
        !.initial_state = IF entry.initial THEN Some(entry.ident) ELSE @]

\* lines 236-242 and 245-252: one source state of a pattern.
RegisterState(model, entry) ==
    [model EXCEPT
        !.all_states = PushUnique(@, entry.ident),
        !.initial_state = IF entry.initial /\ ~IsSome(@) THEN Some(entry.ident) ELSE @]

RECURSIVE RegisterStates(_, _)
RegisterStates(model, entries) ==
    IF entries = <<>> THEN model
    ELSE RegisterStates(RegisterState(model, Head(entries)), Tail(entries))

\* A builder that does not record the named target of a rule.
RegisterTargetSkipped(model, target) == model

\* lines 257-261.
RegisterTarget(model, target) ==
    IF target.kind = "State"
    THEN [model EXCEPT !.all_states = PushUnique(@, target.ident)]
    ELSE model

\* lines 263-267.
RECURSIVE RegisterEvents(_, _)
RegisterEvents(model, events) ==
    IF events = <<>> THEN model
    ELSE RegisterEvents([model EXCEPT !.all_events = PushUnique(@, Head(events))],
                        Tail(events))

\* lines 234-268: the walk over the transitions.
RECURSIVE BuildModel(_, _)
BuildModel(model, transitions) ==
    IF transitions = <<>> THEN model
    ELSE LET t == Head(transitions)
         IN BuildModel(
                RegisterEvents(
                    RegisterTarget(RegisterStates(model, t.states.states), t.target),
                    t.events),
                Tail(transitions))

\* lines 270-278.
ResolveInitial(model) ==
    IF IsSome(model.initial_state) THEN model.initial_state[1]
    ELSE IF model.all_states # <<>> THEN Head(model.all_states)
    ELSE "Initial"

\* lines 280-295.
DefaultDerives == <<"Debug", "Clone", "PartialEq", "Eq">>
Derives(opt) == IF IsSome(opt) THEN opt[1] ELSE DefaultDerives

(***************************************************************************)
(* The emitter, lib.rs 297-376.                                            *)
(***************************************************************************)
\* lines 325-336: the patterns of a rule as token text.
StatePatterns(transition) ==
    IF transition.states.kind = "Wildcard" THEN <<"_">>
    ELSE StateIdents(transition)

\* A condition that is an empty disjunction for the wildcard.
StateConditionWildcardNever(state_patterns) ==
    IF Len(state_patterns) = 1 /\ state_patterns[1] = "_"
    THEN [kind |-> "or", patterns |-> <<>>]
    ELSE IF Len(state_patterns) = 1
    THEN [kind |-> "matches", patterns |-> state_patterns]
    ELSE [kind |-> "or", patterns |-> state_patterns]

\* lines 338-345.
StateCondition(state_patterns) ==
    IF Len(state_patterns) = 1 /\ state_patterns[1] = "_"
    THEN [kind |-> "true", patterns |-> <<>>]
    ELSE IF Len(state_patterns) = 1
    THEN [kind |-> "matches", patterns |-> state_patterns]
    ELSE [kind |-> "or", patterns |-> state_patterns]

\* One `if` for the first event of the rule only.
TransitionCheckFirstEvent(transition) ==
    <<[state_condition |-> StateCondition(StatePatterns(transition)),
       event |-> transition.events[1],
       target_state |-> transition.target]>>

\* lines 347-355: one `if` per event of the rule.
TransitionCheck(transition) ==
    [k \in 1..Len(transition.events) |->
        [state_condition |-> StateCondition(StatePatterns(transition)),
         event |-> transition.events[k],
         target_state |-> transition.target]]

\* The checks with the rules taken last to first.
RECURSIVE TransitionChecksReversed(_)
TransitionChecksReversed(transitions) ==
    IF transitions = <<>> THEN <<>>
    ELSE TransitionChecksReversed(Tail(transitions)) \o TransitionCheck(Head(transitions))

\* lines 315-356.
RECURSIVE TransitionChecks(_)
TransitionChecks(transitions) ==
    IF transitions = <<>> THEN <<>>
    ELSE TransitionCheck(Head(transitions)) \o TransitionChecks(Tail(transitions))

\* lines 297-374: the expansion.
Expanded(state_machine, model) ==
    [state_enum |-> [name |-> StateName(state_machine.name),
                     derives |-> Derives(state_machine.derive_states),
                     variants |-> model.all_states],
     event_enum |-> [name |-> EventName(state_machine.name),
                     derives |-> Derives(state_machine.derive_events),
                     variants |-> model.all_events],
     default |-> ResolveInitial(model),
     transition_checks |-> TransitionChecks(state_machine.transitions)]

(***************************************************************************)
(* The generated code, lib.rs 358-374, as rustc compiles and runs it.      *)
(***************************************************************************)
InSeq(x, list) == \E i \in 1..Len(list) : list[i] = x

\* The expansion type-checks: `default` names a variant of the State enum
\* (line 364) and `self.clone()` (line 322) yields a State only when the
\* enum derives Clone.
Compiles(artifact) ==
    /\ InSeq(artifact.default, artifact.state_enum.variants)
    /\ (\E i \in 1..Len(artifact.transition_checks) :
            artifact.transition_checks[i].target_state.kind = "Internal")
       => InSeq("Clone", artifact.state_enum.derives)

\* matches!(*self, pattern): the pattern `_` matches every value.
MatchesPattern(self, pattern) == pattern = "_" \/ self = pattern

\* A condition that a wildcard rule never satisfies.
EvalConditionNoWildcard(cond, self) ==
    /\ cond.kind # "true"
    /\ \E i \in 1..Len(cond.patterns) : MatchesPattern(self, cond.patterns[i])

\* lines 339-344: `true`, matches!(*self, pattern) and its disjunction.
EvalCondition(cond, self) ==
    IF cond.kind = "true" THEN TRUE
    ELSE \E i \in 1..Len(cond.patterns) : MatchesPattern(self, cond.patterns[i])

\* An evaluator where the last check that holds decides.
RECURSIVE process_event_last_match(_, _, _)
process_event_last_match(checks, self, event) ==
    IF checks = <<>> THEN None
    ELSE IF process_event_last_match(Tail(checks), self, event) # None
         THEN process_event_last_match(Tail(checks), self, event)
         ELSE IF EvalCondition(Head(checks).state_condition, self) /\ event = Head(checks).event
              THEN Some(IF Head(checks).target_state.kind = "State"
                        THEN Head(checks).target_state.ident ELSE self)
              ELSE None

\* An evaluator whose internal rules yield nothing: the scan goes on past them.
RECURSIVE process_event_skip_internal(_, _, _)
process_event_skip_internal(checks, self, event) ==
    IF checks = <<>> THEN None
    ELSE IF /\ EvalCondition(Head(checks).state_condition, self)
            /\ event = Head(checks).event
            /\ Head(checks).target_state.kind = "State"
         THEN Some(Head(checks).target_state.ident)
         ELSE process_event_skip_internal(Tail(checks), self, event)

\* lines 351-353 then 371: the ifs in order, then None.
RECURSIVE process_event(_, _, _)
process_event(checks, self, event) ==
    IF checks = <<>> THEN None
    ELSE LET c == Head(checks)
         IN IF EvalCondition(c.state_condition, self) /\ event = c.event
            THEN Some(IF c.target_state.kind = "State" THEN c.target_state.ident ELSE self)
            ELSE process_event(Tail(checks), self, event)

(***************************************************************************)
(* The token streams the macro is invoked on.                              *)
(***************************************************************************)
\* One to n members of `parts` joined by the separator token.
RECURSIVE Joined(_, _, _)
Joined(parts, sep, n) ==
    IF n = 0 THEN {}
    ELSE parts \cup {a \o <<sep>> \o b : a \in parts, b \in Joined(parts, sep, n - 1)}

\* A source state, with or without the `*` marker.
PlainStateTokens == {<<Id(s)>> : s \in StateIds}
MarkedStateTokens == PlainStateTokens \cup {<<P("*"), Id(s)>> : s \in StateIds}

PatternTokens(stateTokens) ==
    {<<P("_")>>} \cup Joined(stateTokens, P("|"), MaxPatternStates)

EventListTokens(events) == Joined({<<Id(e)>> : e \in events}, P("|"), MaxEvents)

TargetTokens ==
    {<<>>, <<P("="), P("_")>>} \cup {<<P("="), Id(s)>> : s \in StateIds}

RuleTokens(stateTokens, events) ==
    {p \o <<P("+")>> \o e \o t :
        p \in PatternTokens(stateTokens), e \in EventListTokens(events),
        t \in TargetTokens}

TransitionsClause(body) == <<Id("transitions"), P(":"), Brace(body)>>

\* A `transitions` block of at most MaxTransitions well-formed rules.
RuleInputs(rules) ==
    {TransitionsClause(b) : b \in {<<>>} \cup Joined(rules, P(","), MaxTransitions)}

\* Rules over every source pattern, event list and target, without markers.
EvaluationInputs == RuleInputs(RuleTokens(PlainStateTokens, EventIds))

\* Rules over every marked and unmarked source pattern and every target, on
\* one event.
InitialInputs == RuleInputs(RuleTokens(MarkedStateTokens, {"X"}))

\* Longer lists of rules with one source (a state or the wildcard), one or
\* both events and a written target.
OrderedRuleTokens ==
    {p \o <<P("+")>> \o e \o t :
        p \in {<<P("_")>>} \cup PlainStateTokens,
        e \in {<<Id("X")>>, <<Id("Y")>>, <<Id("X"), P("|"), Id("Y")>>},
        t \in TargetTokens \ {<<>>}}

OrderedInputs ==
    {TransitionsClause(b) :
        b \in {<<>>} \cup Joined(OrderedRuleTokens, P(","), MaxOrderedRules)}

\* Whole macro inputs: up to MaxClauses pieces, each a header clause, a
\* `transitions` clause or a stray fragment.
HeaderClauses ==
    {<<Id("name"), P(":"), Id("P")>>,
     <<Id("name"), P(":"), Id("Q"), P(",")>>,
     <<Id("derive_states"), P(":"), Bracket(<<Id("Debug")>>)>>,
     <<Id("derive_states"), P(":"), Bracket(<<Id("Debug"), P(","), Id("Clone")>>), P(",")>>,
     <<Id("derive_events"), P(":"), Bracket(<<Id("Debug"), P(",")>>), P(",")>>,
     <<Id("derive_events"), P(":"), Bracket(<<Id("Clone")>>)>>}

TransitionsClauses ==
    {TransitionsClause(<<>>),
     TransitionsClause(<<P("*"), Id("A"), P("+"), Id("X"), P("="), Id("B")>>),
     TransitionsClause(<<Id("A"), P("+"), Id("X"), P(","),
                         Id("A"), P("+"), Id("X"), P("="), Id("B")>>),
     TransitionsClause(<<P("_"), P("+"), Id("X"), P("="), P("_"), P(",")>>),
     TransitionsClause(<<Id("A"), P("+")>>)}

Fragments ==
    {<<Id("other"), P(":"), Id("P")>>,
     <<Id("P")>>,
     <<P(",")>>,
     <<Id("name"), P(":")>>}

RECURSIVE Concatenations(_, _)
Concatenations(pieces, n) ==
    IF n = 0 THEN {<<>>}
    ELSE {<<>>} \cup {a \o b : a \in pieces, b \in Concatenations(pieces, n - 1)}

ClauseInputs ==
    Concatenations(HeaderClauses \cup TransitionsClauses \cup Fragments, MaxClauses)

\* Header clauses of distinct names in every order, then a `transitions` block.
HeaderSets ==
    {S \in SUBSET HeaderClauses : \A a, b \in S : a[1] = b[1] => a = b}

RECURSIVE Arrangements(_)
Arrangements(S) ==
    IF S = {} THEN {<<>>}
    ELSE UNION {{c \o rest : rest \in Arrangements(S \ {c})} : c \in S}

PermutedInputs ==
    {h \o t : h \in UNION {Arrangements(S) : S \in HeaderSets}, t \in TransitionsClauses}

\* The machines whose state value several callers share: the wildcard, one
\* state or both as the source, one or both events, any target.
SharedRuleTokens ==
    {p \o <<P("+")>> \o e \o t :
        p \in {<<P("_")>>, <<Id("A")>>, <<Id("A"), P("|"), Id("B")>>},
        e \in {<<Id("X")>>, <<Id("X"), P("|"), Id("Y")>>},
        t \in TargetTokens}

SharedInputs == RuleInputs(SharedRuleTokens)

\* Two machines of one compilation unit: each with or without a `name`
\* clause, the first with up to MaxTransitions rules of one state, one event
\* and a named target.
NameClauses ==
    {<<>>} \cup {<<Id("name"), P(":"), Id(n), P(",")>> : n \in {"P", "Q"}}

UnitRuleTokens ==
    {<<Id(s), P("+"), Id(e), P("="), Id(t)>> :
        s \in StateIds, e \in EventIds, t \in StateIds}

UnitInputs == {n \o t : n \in NameClauses, t \in RuleInputs(UnitRuleTokens)}

OtherInputs ==
    {n \o TransitionsClause(b) :
        n \in NameClauses,
        b \in {<<P("*"), Id("B"), P("+"), Id("X"), P("="), Id("A")>>,
               <<Id("A"), P("+"), Id("Y"), P("="), Id("B"), P(","),
                 Id("B"), P("+"), Id("Y"), P("="), Id("A")>>}}

\* lib.rs 211-377 on an input that parses and validates: the artifact.
Expansion(tokens) ==
    Expanded(ParseMacroInput(tokens).val,
             [BuildModel(EmptyModel, ParseMacroInput(tokens).val.transitions)
                 EXCEPT !.initial_state = Some(ResolveInitial(
                     BuildModel(EmptyModel, ParseMacroInput(tokens).val.transitions)))])

\* Lists of rules that repeat pairs, across rules and inside one rule.
DuplicateRuleTokens ==
    {p \o <<P("+")>> \o e :
        p \in {<<Id("A")>>, <<Id("B")>>, <<Id("A"), P("|"), Id("B")>>,
               <<Id("A"), P("|"), Id("A")>>},
        e \in {<<Id("X")>>, <<Id("Y")>>, <<Id("X"), P("|"), Id("Y")>>,
               <<Id("X"), P("|"), Id("X")>>}}

DuplicateInputs ==
    {TransitionsClause(b) :
        b \in {<<>>} \cup Joined(DuplicateRuleTokens, P(","), MaxDuplicateRules)}

(***************************************************************************)
(* State.                                                                  *)
(***************************************************************************)
VARIABLES
    input,           \* the TokenStream handed to statemachine (line 211)
    pc,              \* the step of statemachine that runs next
    state_machine,   \* line 212: the parsed StateMachine, None before
    diagnostics,     \* the compile errors returned to rustc so far
    all_states,      \* line 230
    all_events,      \* line 231
    initial_state,   \* lines 232 and 270
    expanded,        \* line 358: the emitted artifact, None before
    state,           \* the State value the wrapper holds (convert.rs 19)
    event,           \* the event of the call that has returned, if any
    new_state,       \* what that call returned (convert.rs 38)
    calls,           \* the process_event calls of callers sharing `state`
    other            \* a second machine of the compilation unit (convert.rs 170)

vars == <<input, pc, state_machine, diagnostics, all_states, all_events,
          initial_state, expanded, state, event, new_state, calls, other>>

\* The callers that hold a shared reference to the state value.
Callers == 1..MaxCallers

\* A caller that is not inside process_event.
Idle == [status |-> "idle", event |-> None, at |-> 0, result |-> None]

compile_vars == <<input, pc, state_machine, diagnostics, all_states, all_events,
                  initial_state, expanded>>

Diagnostic(kind, s, e) == [kind |-> kind, state |-> s, event |-> e]

InitWith(inputs) ==
    /\ input \in inputs
    /\ pc = "parse"
    /\ state_machine = None
    /\ diagnostics = <<>>
    /\ all_states = <<>>
    /\ all_events = <<>>
    /\ initial_state = None
    /\ expanded = None
    /\ state = None
    /\ event = None
    /\ new_state = None
    /\ calls = [c \in Callers |-> Idle]
    /\ other = None

Init == InitWith(EvaluationInputs)

(***************************************************************************)
(* The steps of statemachine, lib.rs 211-377.                              *)
(***************************************************************************)
\* A parse step after which the model is built without validation.
ParseThenBuild ==
    /\ pc = "parse"
    /\ LET r == ParseMacroInput(input)
       IN IF r.ok
          THEN /\ state_machine' = Some(r.val)
               /\ pc' = "build"
               /\ UNCHANGED diagnostics
          ELSE /\ diagnostics' = Append(diagnostics, Diagnostic(r.err, "", ""))
               /\ pc' = "error"
               /\ UNCHANGED state_machine
    /\ UNCHANGED <<input, all_states, all_events, initial_state, expanded,
                   state, event, new_state, calls, other>>

\* line 212: parse_macro_input! returns the compile error on failure.
Parse ==
    /\ pc = "parse"
    /\ LET r == ParseMacroInput(input)
       IN IF r.ok
          THEN /\ state_machine' = Some(r.val)
               /\ pc' = "validate"
               /\ UNCHANGED diagnostics
          ELSE /\ diagnostics' = Append(diagnostics, Diagnostic(r.err, "", ""))
               /\ pc' = "error"
               /\ UNCHANGED state_machine
    /\ UNCHANGED <<input, all_states, all_events, initial_state, expanded,
                   state, event, new_state, calls, other>>

\* A validation step that reports the duplicate and goes on.
ValidateAndContinue ==
    /\ pc = "validate"
    /\ LET v == validate_no_duplicate_transitions(state_machine[1].transitions)
       IN diagnostics' =
              IF v.ok THEN diagnostics
              ELSE Append(diagnostics, Diagnostic("DuplicateTransition", v.state, v.event))
    /\ pc' = "build"
    /\ UNCHANGED <<input, state_machine, all_states, all_events, initial_state,
                   expanded, state, event, new_state, calls, other>>

\* lines 214-216.
Validate ==
    /\ pc = "validate"
    /\ LET v == validate_no_duplicate_transitions(state_machine[1].transitions)
       IN IF v.ok
          THEN /\ pc' = "build"
               /\ UNCHANGED diagnostics
          ELSE /\ diagnostics' =
                     Append(diagnostics, Diagnostic("DuplicateTransition", v.state, v.event))
               /\ pc' = "error"
    /\ UNCHANGED <<input, state_machine, all_states, all_events, initial_state,
                   expanded, state, event, new_state, calls, other>>

\* A build that keeps the states in a set and lists them in either order.
BuildUnordered ==
    /\ pc = "build"
    /\ LET model == BuildModel(EmptyModel, state_machine[1].transitions)
       IN /\ all_states' \in {model.all_states,
                              [i \in 1..Len(model.all_states) |->
                                  model.all_states[Len(model.all_states) + 1 - i]]}
          /\ all_events' = model.all_events
          /\ initial_state' = Some(ResolveInitial(model))
    /\ pc' = "emit"
    /\ UNCHANGED <<input, state_machine, diagnostics, expanded, state, event, new_state, calls, other>>

\* lines 230-278.
Build ==
    /\ pc = "build"
    /\ LET model == BuildModel(EmptyModel, state_machine[1].transitions)
       IN /\ all_states' = model.all_states
          /\ all_events' = model.all_events
          /\ initial_state' = Some(ResolveInitial(model))
    /\ pc' = "emit"
    /\ UNCHANGED <<input, state_machine, diagnostics, expanded, state, event, new_state, calls, other>>

\* lines 280-376.
Emit ==
    /\ pc = "emit"
    /\ expanded' = Some(Expanded(state_machine[1],
                                 [all_states |-> all_states, all_events |-> all_events,
                                  initial_state |-> initial_state]))
    /\ pc' = "expanded"
    /\ UNCHANGED <<input, state_machine, diagnostics, all_states, all_events,
                   initial_state, state, event, new_state, calls, other>>

(***************************************************************************)
(* The wrapper that uses the generated types (convert.rs 18-102).          *)
(***************************************************************************)
\* The types an expansion defines (lib.rs 302-315).
TypeNames(artifact) == {artifact.state_enum.name, artifact.event_enum.name}

\* rustc accepts the unit: every expansion in it type-checks and no type is
\* defined twice.
UnitCompiles ==
    /\ Compiles(expanded[1])
    /\ IsSome(other) =>
          /\ Compiles(other[1].expanded)
          /\ TypeNames(expanded[1]) \cap TypeNames(other[1].expanded) = {}

\* convert.rs 29: State::default(), lib.rs 362-366.
Default ==
    /\ pc = "expanded"
    /\ UnitCompiles
    /\ state = None
    /\ state' = Some(expanded[1].default)
    /\ UNCHANGED <<compile_vars, event, new_state, calls, other>>

\* A call that also writes its result to the state it was made on.
ProcessEventInPlace ==
    /\ IsSome(state)
    /\ event = None
    /\ \E e \in 1..Len(all_events) :
          LET result == process_event(expanded[1].transition_checks, state[1],
                                      all_events[e])
          IN /\ event' = Some(all_events[e])
             /\ new_state' = result
             /\ state' = IF IsSome(result) THEN result ELSE state
    /\ UNCHANGED <<compile_vars, calls, other>>

\* convert.rs 38, 51: self.state.process_event(Event::e).
ProcessEvent ==
    /\ IsSome(state)
    /\ event = None
    /\ \E e \in 1..Len(all_events) :
          /\ event' = Some(all_events[e])
          /\ new_state' = process_event(expanded[1].transition_checks, state[1],
                                        all_events[e])
    /\ UNCHANGED <<compile_vars, state, calls, other>>

\* convert.rs 47, 52: self.state = new_state.
Store ==
    /\ IsSome(event)
    /\ IsSome(new_state)
    /\ state' = new_state
    /\ event' = None
    /\ new_state' = None
    /\ UNCHANGED <<compile_vars, calls, other>>

\* convert.rs 39, 43: the wrapper returns without storing (None, or a guard
\* rejected the transition).
Return ==
    /\ IsSome(event)
    /\ event' = None
    /\ new_state' = None
    /\ UNCHANGED <<compile_vars, state, calls, other>>

(***************************************************************************)
(* Callers that run process_event on one state value through `&self`       *)
(* (lib.rs 369), each going through the ifs of the body one at a time.     *)
(***************************************************************************)
\* The owner puts a value of the State enum (lib.rs 359) where the callers
\* read it; no call borrows the value at that time.
Share ==
    /\ pc = "expanded"
    /\ Compiles(expanded[1])
    /\ \A c \in Callers : calls[c].status = "idle"
    /\ \E i \in 1..Len(all_states) :
          /\ state # Some(all_states[i])
          /\ state' = Some(all_states[i])
    /\ UNCHANGED <<compile_vars, event, new_state, calls, other>>

\* lib.rs 369: a caller enters process_event with its event.
Begin(c) ==
    /\ IsSome(state)
    /\ calls[c].status = "idle"
    /\ \E e \in 1..Len(all_events) :
          calls' = [calls EXCEPT ![c] = [status |-> "running", event |-> Some(all_events[e]),
                                         at |-> 1, result |-> None]]
    /\ UNCHANGED <<compile_vars, state, event, new_state, other>>

\* A step that applies the transition to the shared value when its `if` holds.
StepInPlace(c) ==
    /\ calls[c].status = "running"
    /\ LET checks == expanded[1].transition_checks
           k == calls[c].at
       IN IF k > Len(checks)
          THEN /\ calls' = [calls EXCEPT ![c].status = "returned", ![c].result = None]
               /\ UNCHANGED state
          ELSE IF /\ EvalCondition(checks[k].state_condition, state[1])
                  /\ calls[c].event[1] = checks[k].event
          THEN /\ calls' = [calls EXCEPT
                              ![c].status = "returned",
                              ![c].result = Some(IF checks[k].target_state.kind = "State"
                                                 THEN checks[k].target_state.ident
                                                 ELSE state[1])]
               /\ state' = Some(IF checks[k].target_state.kind = "State"
                                THEN checks[k].target_state.ident
                                ELSE state[1])
          ELSE /\ calls' = [calls EXCEPT ![c].at = k + 1]
               /\ UNCHANGED state
    /\ UNCHANGED <<compile_vars, event, new_state, other>>

\* lib.rs 351-353 and 371: the caller's next `if` reads *self and the event
\* and returns Some(target) when both match, else goes on; after the last
\* `if` the call returns None.
Step(c) ==
    /\ calls[c].status = "running"
    /\ LET checks == expanded[1].transition_checks
           k == calls[c].at
       IN IF k > Len(checks)
          THEN calls' = [calls EXCEPT ![c].status = "returned", ![c].result = None]
          ELSE IF /\ EvalCondition(checks[k].state_condition, state[1])
                  /\ calls[c].event[1] = checks[k].event
          THEN calls' = [calls EXCEPT
                           ![c].status = "returned",
                           ![c].result = Some(IF checks[k].target_state.kind = "State"
                                              THEN checks[k].target_state.ident
                                              ELSE state[1])]
          ELSE calls' = [calls EXCEPT ![c].at = k + 1]
    /\ UNCHANGED <<compile_vars, state, event, new_state, other>>

\* The caller has its result and lets go of the reference.
Finish(c) ==
    /\ calls[c].status = "returned"
    /\ calls' = [calls EXCEPT ![c] = Idle]
    /\ UNCHANGED <<compile_vars, state, event, new_state, other>>

(***************************************************************************)
(* The second machine of the unit (convert.rs 170-203).                    *)
(***************************************************************************)
\* convert.rs 189: EnemyState::default().
OtherDefault ==
    /\ pc = "expanded"
    /\ IsSome(other)
    /\ UnitCompiles
    /\ other[1].state = None
    /\ other' = Some([other[1] EXCEPT !.state = Some(other[1].expanded.default)])
    /\ UNCHANGED <<compile_vars, state, event, new_state, calls>>

\* convert.rs 192-194: if let Some(new_state) = enemy.process_event(e)
\* { enemy = new_state; }
OtherProcessEvent ==
    /\ IsSome(other)
    /\ IsSome(other[1].state)
    /\ \E e \in 1..Len(other[1].expanded.event_enum.variants) :
          LET result == process_event(other[1].expanded.transition_checks,
                                      other[1].state[1],
                                      other[1].expanded.event_enum.variants[e])
          IN /\ IsSome(result)
             /\ other' = Some([other[1] EXCEPT !.state = result])
    /\ UNCHANGED <<compile_vars, state, event, new_state, calls>>

Next == Parse \/ Validate \/ Build \/ Emit \/ Default \/ ProcessEvent \/ Store \/ Return

Spec == Init /\ [][Next]_vars

InitInitial == InitWith(InitialInputs)

SpecInitial == InitInitial /\ [][Next]_vars

InitOrdered == InitWith(OrderedInputs)

SpecOrdered == InitOrdered /\ [][Next]_vars

InitClauses == InitWith(ClauseInputs)

SpecClauses == InitClauses /\ [][Next]_vars

InitPermuted == InitWith(PermutedInputs)

SpecPermuted == InitPermuted /\ [][Next]_vars

InitShared == InitWith(SharedInputs)

NextShared ==
    \/ Parse \/ Validate \/ Build \/ Emit \/ Share
    \/ \E c \in Callers : Begin(c) \/ Step(c) \/ Finish(c)

SpecShared == InitShared /\ [][NextShared]_vars

InitUnit ==
    /\ input \in UnitInputs
    /\ pc = "parse"
    /\ state_machine = None
    /\ diagnostics = <<>>
    /\ all_states = <<>>
    /\ all_events = <<>>
    /\ initial_state = None
    /\ expanded = None
    /\ state = None
    /\ event = None
    /\ new_state = None
    /\ calls = [c \in Callers |-> Idle]
    /\ other \in {Some([expanded |-> Expansion(tokens), state |-> None]) :
                     tokens \in OtherInputs}

NextUnit == Next \/ OtherDefault \/ OtherProcessEvent

SpecUnit == InitUnit /\ [][NextUnit]_vars

InitDuplicates == InitWith(DuplicateInputs)

SpecDuplicates == InitDuplicates /\ [][Next]_vars

(***************************************************************************)
(* What the transition list of the parsed spec says, rule by rule.         *)
(***************************************************************************)
Transitions == state_machine[1].transitions
Checks == expanded[1].transition_checks
StateVariants == {all_states[i] : i \in 1..Len(all_states)}
EventVariants == {all_events[i] : i \in 1..Len(all_events)}

Emitted == pc = "expanded" /\ Compiles(expanded[1])

\* The pattern covers the state.
Covers(pattern, s) ==
    \/ pattern.kind = "Wildcard"
    \/ \E j \in 1..Len(pattern.states) : pattern.states[j].ident = s

Lists(t, e) == \E k \in 1..Len(t.events) : t.events[k] = e

Fires(t, s, e) == Covers(t.states, s) /\ Lists(t, e)

ResultOf(t, s) == IF t.target.kind = "State" THEN t.target.ident ELSE s

HasMatch(s, e) == \E i \in 1..Len(Transitions) : Fires(Transitions[i], s, e)

Earliest(s, e) ==
    CHOOSE i \in 1..Len(Transitions) :
        /\ Fires(Transitions[i], s, e)
        /\ \A j \in 1..(i - 1) : ~Fires(Transitions[j], s, e)

Validated == pc \notin {"parse", "validate"} /\ IsSome(state_machine)

Positions ==
    UNION {{<<i, j, k>> : j \in 1..Len(Transitions[i].states.states),
                          k \in 1..Len(Transitions[i].events)} :
           i \in 1..Len(Transitions)}

PairAt(q) == <<Transitions[q[1]].states.states[q[2]].ident, Transitions[q[1]].events[q[3]]>>

\* Scan order: transitions in declaration order, then source states left to
\* right, then events left to right.
Before(q, r) ==
    \/ q[1] < r[1]
    \/ q[1] = r[1] /\ q[2] < r[2]
    \/ q[1] = r[1] /\ q[2] = r[2] /\ q[3] < r[3]

Repeats(r) == \E q \in Positions : Before(q, r) /\ PairAt(q) = PairAt(r)

FirstRepeat ==
    CHOOSE r \in Positions :
        Repeats(r) /\ \A q \in Positions : Repeats(q) => (q = r \/ Before(r, q))

\* Two different transitions both declare the pair.
SharedPair(s, e) ==
    \E q, r \in Positions : q[1] # r[1] /\ PairAt(q) = <<s, e>> /\ PairAt(r) = <<s, e>>

(***************************************************************************)
(* C3, as stated.  Whenever two transitions declare the same concrete      *)
(* source state and the same event, compilation fails with a               *)
(* DuplicateTransition diagnostic that names that state and that event.    *)
(***************************************************************************)
C3_NamesEverySharedPair ==
    Validated =>
        \A s \in StateIds, e \in EventIds :
            SharedPair(s, e) =>
                /\ pc = "error"
                /\ diagnostics = <<Diagnostic("DuplicateTransition", s, e)>>

(***************************************************************************)
(* C3, amended.  Whenever two transitions declare the same concrete source *)
(* state and the same event, compilation fails with one                    *)
(* DuplicateTransition diagnostic; it names the first pair in scan order   *)
(* that repeats an earlier one, which is that state and that event when no *)
(* other pair repeats.                                                     *)
(***************************************************************************)
C3_NamesFirstRepeatedPair ==
    Validated =>
        \A s \in StateIds, e \in EventIds :
            SharedPair(s, e) =>
                /\ pc = "error"
                /\ diagnostics =
                      <<Diagnostic("DuplicateTransition", PairAt(FirstRepeat)[1],
                                   PairAt(FirstRepeat)[2])>>
                /\ (\A q \in Positions : Repeats(q) => PairAt(q) = <<s, e>>)
                      => diagnostics = <<Diagnostic("DuplicateTransition", s, e)>>

\* Compilation has failed on a pair that two transitions share, with targets
\* that differ.
C3_Witness ==
    /\ Validated
    /\ pc = "error"
    /\ \E s \in StateIds, e \in EventIds :
          /\ SharedPair(s, e)
          /\ diagnostics = <<Diagnostic("DuplicateTransition", s, e)>>
          /\ Transitions[1].target # Transitions[2].target

(***************************************************************************)
(* C4.  Validation succeeds if and only if no (concrete source state,      *)
(* event) pair, from expanding Single and Multiple patterns over their     *)
(* event lists, occurs more than once.  Wildcard rules contribute no pair, *)
(* so they never cause a rejection.                                        *)
(***************************************************************************)
C4_RejectsIffRepeatedPair ==
    Validated =>
        ((pc # "error") <=> (\A q, r \in Positions : PairAt(q) = PairAt(r) => q = r))

\* Validation has accepted a wildcard rule that shares its event with a rule
\* declared after it, be it a specific rule or another wildcard rule.
C4_Witness ==
    /\ Validated
    /\ pc = "build"
    /\ \E i, j \in 1..Len(Transitions) :
          /\ i < j
          /\ Transitions[i].states.kind = "Wildcard"
          /\ \E e \in EventIds : Lists(Transitions[i], e) /\ Lists(Transitions[j], e)

(***************************************************************************)
(* The `*` markers and the states of a transition list, in declaration     *)
(* order.                                                                  *)
(***************************************************************************)
Built == pc \in {"emit", "expanded"}

MarkedPositions ==
    {q \in UNION {{<<i, j>> : j \in 1..Len(Transitions[i].states.states)} :
                  i \in 1..Len(Transitions)} :
        Transitions[q[1]].states.states[q[2]].initial}

FirstMarked ==
    CHOOSE q \in MarkedPositions :
        \A r \in MarkedPositions : q[1] < r[1] \/ (q[1] = r[1] /\ q[2] <= r[2])

NamesState(t) == t.states.kind # "Wildcard" \/ t.target.kind = "State"

\* The first state met when the transitions are walked in order, the source
\* states of a rule before its target.
FirstEncountered ==
    LET i == CHOOSE n \in 1..Len(Transitions) :
                 NamesState(Transitions[n]) /\ \A m \in 1..(n - 1) : ~NamesState(Transitions[m])
    IN IF Transitions[i].states.kind # "Wildcard"
       THEN Transitions[i].states.states[1].ident
       ELSE Transitions[i].target.ident

(***************************************************************************)
(* C5.  For every spec that passes validation the initial state, which is  *)
(* the default value of the generated State type, is the first `*`-marked  *)
(* state in declaration order (transitions in order, the states of a       *)
(* pattern left to right); later markers do not replace it.  When no state *)
(* is marked it is the first state met while the model is built.           *)
(***************************************************************************)
C5_InitialIsFirstMarked ==
    Built =>
        /\ MarkedPositions # {} =>
              initial_state =
                  Some(Transitions[FirstMarked[1]].states.states[FirstMarked[2]].ident)
        /\ (MarkedPositions = {} /\ \E i \in 1..Len(Transitions) : NamesState(Transitions[i]))
              => initial_state = Some(FirstEncountered)
        /\ pc = "expanded" => expanded[1].default = initial_state[1]

\* The wrapper holds the default state of a spec that marks two different
\* states, the first marked being neither the last marked nor the first state
\* met.
C5_Witness ==
    /\ pc = "expanded"
    /\ state = Some(expanded[1].default)
    /\ \E q \in MarkedPositions :
          Transitions[q[1]].states.states[q[2]].ident # expanded[1].default
    /\ expanded[1].default # all_states[1]

Rules == 1..Len(Transitions)

WildcardFor(w, e) == Transitions[w].states.kind = "Wildcard" /\ Lists(Transitions[w], e)

SpecificFor(i, e) == Transitions[i].states.kind # "Wildcard" /\ Lists(Transitions[i], e)

\* The wildcard rule w for e comes strictly after every specific rule for e.
AfterEverySpecific(w, e) ==
    WildcardFor(w, e) /\ \A i \in Rules : SpecificFor(i, e) => i < w

HasSpecific(s, e) == \E i \in Rules : SpecificFor(i, e) /\ Covers(Transitions[i].states, s)

\* What the specific rules for e say for a state that has one.
SpecificResults(s, e) ==
    {Some(ResultOf(Transitions[i], s)) :
        i \in {n \in Rules : SpecificFor(n, e) /\ Covers(Transitions[n].states, s)}}

EarliestWildcardFor(w, e) ==
    WildcardFor(w, e) /\ \A j \in 1..(w - 1) : ~WildcardFor(j, e)

WildcardBeforeSpecific(w, i, e) == WildcardFor(w, e) /\ SpecificFor(i, e) /\ w < i

NoRepeatedPair == \A q, r \in Positions : PairAt(q) = PairAt(r) => q = r

\* The transition list without rule i.
Without(i) ==
    [n \in 1..(Len(Transitions) - 1) |-> IF n < i THEN Transitions[n] ELSE Transitions[n + 1]]

\* Rule i decides nothing for event e: the evaluator emitted without it
\* returns the same for e on every state.
DeadFor(i, e) ==
    \A s \in StateVariants :
        process_event(TransitionChecks(Without(i)), s, e) = process_event(Checks, s, e)

ParseErrors ==
    {"ExpectedIdentifier", "ExpectedBrackets", "ExpectedBraces", "ExpectedComma",
     "ExpectedPlus", "UnknownClause", "MissingTransitionsBlock", "UnexpectedToken"}

C9_OneDiagnosticOrArtifact ==
    /\ Len(diagnostics) <= 1
    /\ (pc = "error") <=> (Len(diagnostics) = 1)
    /\ pc = "error" =>
          /\ expanded = None /\ state = None /\ initial_state = None
          /\ all_states = <<>> /\ all_events = <<>>
          /\ IF IsSome(state_machine)
             THEN diagnostics[1].kind = "DuplicateTransition"
             ELSE diagnostics[1].kind \in ParseErrors
    /\ IsSome(expanded) =>
          /\ diagnostics = <<>>
          /\ pc = "expanded"
          /\ DOMAIN expanded[1] = {"state_enum", "event_enum", "default", "transition_checks"}
          /\ expanded[1].transition_checks = TransitionChecks(Transitions)
          /\ expanded[1].state_enum.variants = all_states
          /\ expanded[1].event_enum.variants = all_events

\* Validation has failed after a parse of header clauses and a transitions
\* block: one diagnostic and nothing emitted.
C9_Witness ==
    /\ pc = "error"
    /\ IsSome(state_machine)
    /\ IsSome(state_machine[1].name)
    /\ Len(diagnostics) = 1
    /\ diagnostics[1].kind = "DuplicateTransition"
    /\ expanded = None

(***************************************************************************)
(* C10.  Parsing fails with the MissingTransitionsBlock error whenever the *)
(* input is exhausted without a `transitions:` clause: the empty input and *)
(* any input made of well-formed `name:`, `derive_states:` and             *)
(* `derive_events:` clauses only.                                          *)
(***************************************************************************)
RECURSIVE OnlyHeaderClauses(_)
OnlyHeaderClauses(tokens) ==
    \/ tokens = <<>>
    \/ /\ Len(tokens) >= 3
       /\ tokens[2] = P(":")
       /\ \/ tokens[1] = Id("name") /\ tokens[3].t = "Ident"
          \/ /\ tokens[1] \in {Id("derive_states"), Id("derive_events")}
             /\ tokens[3].t = "Group"
             /\ tokens[3].v = "Bracket"
             /\ ParseTerminatedIdents(tokens[3].s, <<>>).ok
       /\ OnlyHeaderClauses(SkipComma(Rest(tokens, 3)))

C10_MissingTransitionsBlock ==
    (pc # "parse" /\ OnlyHeaderClauses(input)) =>
        /\ pc = "error"
        /\ diagnostics = <<Diagnostic("MissingTransitionsBlock", "", "")>>

(***************************************************************************)
(* C11.  Parsing fails with the UnknownClause error exactly when, after    *)
(* zero or more well-formed header clauses, the next clause (an identifier *)
(* followed by `:`) is led by an identifier other than `name`,             *)
(* `derive_states`, `derive_events` and `transitions`.  Nothing that       *)
(* follows the clause is looked at, and no spec is produced.               *)
(***************************************************************************)
ClauseNames == {"name", "derive_states", "derive_events", "transitions"}

\* The tokens start with a well-formed header clause.
HeaderClauseAt(tokens) ==
    /\ Len(tokens) >= 3
    /\ tokens[2] = P(":")
    /\ \/ tokens[1] = Id("name") /\ tokens[3].t = "Ident"
       \/ /\ tokens[1] \in {Id("derive_states"), Id("derive_events")}
          /\ tokens[3].t = "Group"
          /\ tokens[3].v = "Bracket"
          /\ ParseTerminatedIdents(tokens[3].s, <<>>).ok

RECURSIVE UnknownClauseLeads(_)
UnknownClauseLeads(tokens) ==
    /\ Len(tokens) >= 2
    /\ tokens[1].t = "Ident"
    /\ tokens[2] = P(":")
    /\ \/ tokens[1].v \notin ClauseNames
       \/ HeaderClauseAt(tokens) /\ UnknownClauseLeads(SkipComma(Rest(tokens, 3)))

C11_UnknownClause ==
    pc # "parse" =>
        /\ UnknownClauseLeads(input) =>
              /\ pc = "error"
              /\ diagnostics = <<Diagnostic("UnknownClause", "", "")>>
              /\ state_machine = None
              /\ expanded = None
        /\ (diagnostics # <<>> /\ diagnostics[1].kind = "UnknownClause") =>
              UnknownClauseLeads(input)

\* An unknown clause after a header clause and before further tokens has
\* been rejected.
C11_Witness ==
    /\ pc = "error"
    /\ diagnostics = <<Diagnostic("UnknownClause", "", "")>>
    /\ Len(input) > 6
    /\ HeaderClauseAt(input)
    /\ UnknownClauseLeads(input)
    /\ state_machine = None

(***************************************************************************)
(* C12.  `transitions` is the terminal clause.  When the input reaches a   *)
(* `transitions:` block through well-formed header clauses and the input   *)
(* up to the end of that block parses to a spec, the whole input parses to *)
(* that same spec, whatever follows the block.                             *)
(***************************************************************************)
\* The number of tokens up to the end of the first `transitions:` block that
\* is reached through well-formed header clauses; 0 when there is none.
RECURSIVE ThroughTransitions(_, _)
ThroughTransitions(tokens, n) ==
    IF /\ Len(tokens) >= n + 3
       /\ tokens[n + 1] = Id("transitions")
       /\ tokens[n + 2] = P(":")
       /\ PeekGroup(Rest(tokens, n + 2), "Brace")
    THEN n + 3
    ELSE IF HeaderClauseAt(Rest(tokens, n))
    THEN ThroughTransitions(tokens, Len(tokens) - Len(SkipComma(Rest(tokens, n + 3))))
    ELSE 0

TerminalPrefix == SubSeq(input, 1, ThroughTransitions(input, 0))

C12_TransitionsIsTerminal ==
    (/\ pc # "parse"
     /\ ThroughTransitions(input, 0) > 0
     /\ ParseMacroInput(TerminalPrefix).ok) =>
        /\ IsSome(state_machine)
        /\ state_machine[1] = ParseMacroInput(TerminalPrefix).val

(***************************************************************************)
(* C13.  The header clauses are optional and their order does not matter:  *)
(* every arrangement of the same set of header clauses of distinct names,  *)
(* followed by the same `transitions` block, parses to the same result as  *)
(* the input, and that result is the spec the macro holds after parsing.   *)
(***************************************************************************)
\* The arrangements of the header clauses S before the block t.
Reorderings(S, t) == {h \o t : h \in Arrangements(S)}

C13_ClauseOrderIrrelevant ==
    pc # "parse" =>
        \A S \in HeaderSets, t \in TransitionsClauses :
            input \in Reorderings(S, t) =>
                \A arranged \in Reorderings(S, t) :
                    /\ ParseMacroInput(arranged) = ParseMacroInput(input)
                    /\ ParseMacroInput(arranged).ok =>
                          state_machine = Some(ParseMacroInput(arranged).val)

\* All three header clauses were given, the `name` clause last, and the
\* spec has them all.
C13_Witness ==
    /\ pc = "expanded"
    /\ input[1] = Id("derive_events")
    /\ \E k \in 4..Len(input) : input[k] = Id("derive_states")
    /\ \E k \in 7..Len(input) : input[k] = Id("name")
    /\ state_machine[1].name = Some("P")
    /\ state_machine[1].derive_states = Some(<<"Debug", "Clone">>)
    /\ state_machine[1].derive_events = Some(<<"Clone">>)
    /\ Len(state_machine[1].transitions) = 1

(***************************************************************************)
(* C14.  Omitting `= target` is the same as writing `= _`.  The input with *)
(* `= _` written after every rule that has no target parses to the same    *)
(* result as the input itself, the rules concerned have the internal       *)
(* target, and the evaluator emitted for one returns what the evaluator    *)
(* emitted for the other returns, for every state and event.               *)
(***************************************************************************)
\* The rules of a `transitions` body, `= _` written where no target is.
RECURSIVE WriteInternal(_, _)
WriteInternal(body, hasTarget) ==
    IF body = <<>>
    THEN IF hasTarget THEN <<>> ELSE <<P("="), P("_")>>
    ELSE IF Head(body) = P(",")
    THEN (IF hasTarget THEN <<>> ELSE <<P("="), P("_")>>)
             \o <<P(",")>> \o WriteInternal(Tail(body), FALSE)
    ELSE <<Head(body)>> \o WriteInternal(Tail(body), hasTarget \/ Head(body) = P("="))

WithWrittenInternal(tokens) ==
    IF tokens[3].s = <<>> THEN tokens
    ELSE TransitionsClause(WriteInternal(tokens[3].s, FALSE))

OmitsTarget(tokens) == WithWrittenInternal(tokens) # tokens

C14_OmittedTargetIsInternal ==
    pc # "parse" =>
        LET written == ParseMacroInput(WithWrittenInternal(input))
        IN /\ written = ParseMacroInput(input)
           /\ written.ok =>
                 /\ state_machine = Some(written.val)
                 /\ \A s \in StateIds, e \in EventIds :
                        process_event(TransitionChecks(written.val.transitions), s, e)
                            = process_event(TransitionChecks(Transitions), s, e)
           /\ pc = "expanded" => Checks = TransitionChecks(written.val.transitions)

\* A call was decided by a rule written without a target, and returned the
\* state it was made on.
C14_Witness ==
    /\ Emitted
    /\ \A k \in 1..Len(input[3].s) : input[3].s[k] # P("=")
    /\ OmitsTarget(input)
    /\ IsSome(event)
    /\ IsSome(new_state)
    /\ new_state = state
    /\ Transitions[Earliest(state[1], event[1])].target = Internal

(***************************************************************************)
(* C15.  After model building the canonical state list holds every state   *)
(* identifier written as a source or as a named target exactly once, and   *)
(* the canonical event list every event identifier exactly once, each in   *)
(* the order of first mention (in a rule: the sources left to right, then  *)
(* the named target; the events left to right).  A wildcard source and an  *)
(* internal target add no state.                                           *)
(***************************************************************************)
\* The state identifiers as written, rule by rule.
RECURSIVE StateMentions(_)
StateMentions(ts) ==
    IF ts = <<>> THEN <<>>
    ELSE [j \in 1..Len(Head(ts).states.states) |-> Head(ts).states.states[j].ident]
           \o (IF Head(ts).target.kind = "State" THEN <<Head(ts).target.ident>> ELSE <<>>)
           \o StateMentions(Tail(ts))

\* The event identifiers as written, rule by rule.
RECURSIVE EventMentions(_)
EventMentions(ts) ==
    IF ts = <<>> THEN <<>> ELSE Head(ts).events \o EventMentions(Tail(ts))

FirstAt(seq, x) == CHOOSE i \in 1..Len(seq) : seq[i] = x /\ \A j \in 1..(i - 1) : seq[j] # x

\* `list` holds the members of `mentions` once each, by first mention.
FirstSeenOrder(list, mentions) ==
    /\ {list[i] : i \in 1..Len(list)} = {mentions[i] : i \in 1..Len(mentions)}
    /\ \A i, j \in 1..Len(list) : list[i] = list[j] => i = j
    /\ \A i, j \in 1..Len(list) :
          i < j => FirstAt(mentions, list[i]) < FirstAt(mentions, list[j])

C15_CanonicalLists ==
    Built =>
        /\ FirstSeenOrder(all_states, StateMentions(Transitions))
        /\ FirstSeenOrder(all_events, EventMentions(Transitions))
        /\ "_" \notin StateVariants

\* A wildcard rule names B as its target before A is a source, both states
\* are mentioned again, and both lists are in the order of first mention.
C15_Witness ==
    /\ Built
    /\ Len(Transitions) = 2
    /\ Transitions[1].states.kind = "Wildcard"
    /\ Transitions[2].target = Internal
    /\ StateMentions(Transitions) = <<"B", "A", "B">>
    /\ all_states = <<"B", "A">>
    /\ EventMentions(Transitions) = <<"Y", "X", "Y", "X">>
    /\ all_events = <<"Y", "X">>

(***************************************************************************)
(* C16.  process_event is pure.  A call leaves the state it is made on and *)
(* everything else as they are and only returns its result; the state the  *)
(* caller holds changes only in the step in which the caller stores a      *)
(* returned Some(next), so after a None or a result the caller does not    *)
(* store, the caller holds the state it held before.                       *)
(***************************************************************************)
\* The step is a call of process_event.
Calls == event = None /\ IsSome(event')

\* The step ends a call: the caller has stored the result or dropped it.
Returns == IsSome(event) /\ event' = None

C16_ProcessEventIsPure ==
    [][/\ Calls =>
             /\ state' = state
             /\ UNCHANGED compile_vars
             /\ new_state' = process_event(Checks, state[1], event'[1])
       /\ (IsSome(state) /\ state' # state) =>
             /\ Returns
             /\ IsSome(new_state)
             /\ state' = new_state
       /\ (Returns /\ new_state = None) => state' = state]_vars

\* A call has returned Some(next) with next another state, and the caller
\* still holds the state the call was made on.
C16_Witness ==
    /\ Emitted
    /\ IsSome(event)
    /\ IsSome(new_state)
    /\ IsSome(state)
    /\ new_state # state
    /\ state[1] = expanded[1].default

(***************************************************************************)
(* C17.  process_event may be called by several callers at once without a  *)
(* lock.  However the steps of the callers interleave, a call that has     *)
(* returned has the result the evaluator gives for the shared state and    *)
(* the call's event when run alone, and no step changes the shared state   *)
(* while a call is under way.                                              *)
(***************************************************************************)
InFlight(c) == calls[c].status # "idle"

ReturnedAsAlone ==
    \A c \in Callers :
        calls[c].status = "returned" =>
            calls[c].result = process_event(Checks, state[1], calls[c].event[1])

C17_ConcurrentCallsAgree ==
    /\ []ReturnedAsAlone
    /\ [][(\E c \in Callers : InFlight(c)) => state' = state]_vars

\* Two calls with different events are under way on the same state: one has
\* returned another state, the other is past its first `if`.
C17_Witness ==
    /\ calls[1].status = "returned"
    /\ IsSome(calls[1].result)
    /\ calls[1].result # state
    /\ calls[2].status = "running"
    /\ calls[2].at > 1
    /\ calls[2].event # calls[1].event

(***************************************************************************)
(* C18.  The pipeline is deterministic.  What each step leaves (the parsed *)
(* spec or the diagnostic, the canonical lists, the initial state, the     *)
(* artifact with its ordered checks) is a function of the input alone, so  *)
(* a second run on the same input leaves the same; the result of a call is *)
(* a function of the state and the event alone, and so is the state the    *)
(* caller holds after storing it, so two runs from the same state with the *)
(* same events pass through the same states.                               *)
(***************************************************************************)
\* What a run of the pipeline on `tokens` yields, step by step.
ParsedFrom(tokens) == ParseMacroInput(tokens)
ValidatedFrom(tokens) == validate_no_duplicate_transitions(ParsedFrom(tokens).val.transitions)
ModelFrom(tokens) == BuildModel(EmptyModel, ParsedFrom(tokens).val.transitions)
ArtifactFrom(tokens) ==
    Expanded(ParsedFrom(tokens).val,
             [all_states |-> ModelFrom(tokens).all_states,
              all_events |-> ModelFrom(tokens).all_events,
              initial_state |-> Some(ResolveInitial(ModelFrom(tokens)))])

SameAsAnyRun ==
    /\ pc # "parse" =>
          IF ParsedFrom(input).ok
          THEN state_machine = Some(ParsedFrom(input).val)
          ELSE /\ pc = "error"
               /\ diagnostics = <<Diagnostic(ParsedFrom(input).err, "", "")>>
    /\ (pc = "error" /\ IsSome(state_machine)) =>
          diagnostics = <<Diagnostic("DuplicateTransition", ValidatedFrom(input).state,
                                     ValidatedFrom(input).event)>>
    /\ Built =>
          /\ all_states = ModelFrom(input).all_states
          /\ all_events = ModelFrom(input).all_events
          /\ initial_state = Some(ResolveInitial(ModelFrom(input)))
    /\ pc = "expanded" => expanded = Some(ArtifactFrom(input))
    /\ IsSome(event) =>
          new_state = process_event(ArtifactFrom(input).transition_checks, state[1], event[1])

NameWritten(tokens) ==
    IF Len(tokens) >= 3 /\ tokens[1] = Id("name") /\ tokens[2] = P(":")
    THEN Some(tokens[3].v)
    ELSE None

NamedAsWritten ==
    pc = "expanded" =>
        IF IsSome(NameWritten(input))
        THEN /\ expanded[1].state_enum.name = NameWritten(input)[1] \o "State"
             /\ expanded[1].event_enum.name = NameWritten(input)[1] \o "Event"
        ELSE /\ expanded[1].state_enum.name = "State"
             /\ expanded[1].event_enum.name = "Event"

\* Both machines are named and the names differ.
DistinctlyNamed ==
    /\ IsSome(state_machine)
    /\ IsSome(state_machine[1].name)
    /\ IsSome(other)
    /\ other[1].expanded.state_enum.name # "State"
    /\ other[1].expanded.state_enum.name # state_machine[1].name[1] \o "State"

IndependentTypes ==
    (pc = "expanded" /\ DistinctlyNamed) =>
        /\ Cardinality(TypeNames(expanded[1]) \cup TypeNames(other[1].expanded)) = 4
        /\ (Compiles(expanded[1]) /\ Compiles(other[1].expanded)) => UnitCompiles

C19_NamedMachinesIndependent ==
    /\ [](NamedAsWritten /\ IndependentTypes)
    /\ [][(pc = "expanded" /\ DistinctlyNamed) =>
             /\ (state = None /\ IsSome(state')) => state'[1] = expanded[1].default
             /\ (IsSome(state) /\ state' # state) =>
                   /\ state' = process_event(Checks, state[1], event[1])
                   /\ other' = other
             /\ (other[1].state = None /\ IsSome(other'[1].state)) =>
                   other'[1].state[1] = other[1].expanded.default
             /\ other' # other =>
                   /\ state' = state
                   /\ other'[1].expanded = other[1].expanded
                   /\ IsSome(other[1].state) =>
                         \E e \in 1..Len(other[1].expanded.event_enum.variants) :
                             other'[1].state =
                                 process_event(other[1].expanded.transition_checks,
                                               other[1].state[1],
                                               other[1].expanded.event_enum.variants[e])]_vars

\* Machines P and Q of one unit have both left their default states, which
\* differ, and the call under way on P has not touched Q.
C19_Witness ==
    /\ pc = "expanded"
    /\ DistinctlyNamed
    /\ expanded[1].state_enum.name = "PState"
    /\ other[1].expanded.event_enum.name = "QEvent"
    /\ expanded[1].default # other[1].expanded.default
    /\ IsSome(state)
    /\ state[1] # expanded[1].default
    /\ IsSome(other[1].state)
    /\ other[1].state[1] # other[1].expanded.default
    /\ IsSome(new_state)

(***************************************************************************)
(* C20.  A rule with several source states or several events is their      *)
(* disjunction.  The evaluator emitted for the list in which every rule    *)
(* `S1 | ... | Sm + E1 | ... | Ek = T` is replaced, in its place, by its    *)
(* m * k rules of one state and one event with the same target (k rules    *)
(* for a wildcard rule) returns what the emitted evaluator returns, for    *)
(* every state and event; and the checks of a rule alone return the rule's *)
(* result for each of its source states with each of its events.           *)
(***************************************************************************)
\* The single-state, single-event rules of one rule, states outer.
SplitRule(t) ==
    IF t.states.kind = "Wildcard"
    THEN [k \in 1..Len(t.events) |->
            [states |-> Wildcard, events |-> <<t.events[k]>>, target |-> t.target]]
    ELSE [k \in 1..(Len(t.states.states) * Len(t.events)) |->
            [states |-> MakePattern(<<t.states.states[((k - 1) \div Len(t.events)) + 1]>>),
             events |-> <<t.events[((k - 1) % Len(t.events)) + 1]>>,
             target |-> t.target]]

RECURSIVE SplitRules(_)
SplitRules(ts) ==
    IF ts = <<>> THEN <<>> ELSE SplitRule(Head(ts)) \o SplitRules(Tail(ts))

SomePairRepeats == \E r \in Positions : Repeats(r)

\* The pairs that repeat an earlier pair.
RepeatedPairs == {PairAt(r) : r \in {q \in Positions : Repeats(q)}}

C21_FailsAtFirstRepeat ==
    (Validated /\ SomePairRepeats) =>
        /\ pc = "error"
        /\ Len(diagnostics) = 1
        /\ diagnostics[1].kind = "DuplicateTransition"
        /\ <<diagnostics[1].state, diagnostics[1].event>> = PairAt(FirstRepeat)
        /\ all_states = <<>>
        /\ all_events = <<>>
        /\ expanded = None

\* Three rules repeat two pairs, the later rule listing them in the other
\* order of states and events, and validation has named the first in scan
\* order.
C21_Witness ==
    /\ Validated
    /\ pc = "error"
    /\ Len(Transitions) = 3
    /\ Cardinality(RepeatedPairs) = 2
    /\ FirstRepeat = <<3, 1, 2>>
    /\ <<diagnostics[1].state, diagnostics[1].event>> = PairAt(<<3, 1, 2>>)
    /\ \E r \in Positions : r[1] = 3 /\ r[3] = 1 /\ Repeats(r)

\* One rule repeats its own pair and validation has named it.
C21_WitnessInsideRule ==
    /\ Validated
    /\ pc = "error"
    /\ Len(Transitions) = 1
    /\ SomePairRepeats
    /\ <<diagnostics[1].state, diagnostics[1].event>> = PairAt(FirstRepeat)

(***************************************************************************)
(* C22.  In every spec that has passed parsing and validation, the event   *)
(* list of each transition is non-empty and holds no event identifier      *)
(* twice, whether the source pattern is a Single, a Multiple or the        *)
(* Wildcard.                                                               *)
(***************************************************************************)
DistinctEvents(t) ==
    \A j, k \in 1..Len(t.events) : t.events[j] = t.events[k] => j = k

C22_EventsNonEmptyDistinct ==
    (Validated /\ pc # "error") =>
        \A i \in 1..Len(Transitions) :
            /\ Len(Transitions[i].events) >= 1
            /\ DistinctEvents(Transitions[i])

(***************************************************************************)
(* C23, as stated.  The stages run in the order Parser, Model Builder,     *)
(* Validator, Emitter, each at most once: the validator runs only after    *)
(* the model (state list, event list, initial state) has been built, and   *)
(* the emitter only after validation succeeded.                            *)
(***************************************************************************)
\* The step is the run of the stage that starts at `stage`.
Runs(stage) == pc = stage /\ pc' # stage

ModelBuilt == IsSome(initial_state)

ValidationSucceeded ==
    IsSome(state_machine) /\ validate_no_duplicate_transitions(Transitions).ok

StageOrder ==
    {<<"parse", "validate">>, <<"parse", "error">>, <<"validate", "build">>,
     <<"validate", "error">>, <<"build", "emit">>, <<"emit", "expanded">>}

C24_InitialIsDeclared ==
    Built =>
        /\ IsSome(initial_state)
        /\ initial_state[1] \in StateVariants
        /\ pc = "expanded" =>
              /\ InSeq(expanded[1].default, expanded[1].state_enum.variants)
              /\ Compiles(expanded[1])

(***************************************************************************)
(* C25.  Closure over event sequences.  From the default state, through    *)
(* any sequence of events in which the caller stores the result on Some    *)
(* and keeps its state on None, the state the caller holds is a member of  *)
(* the canonical state list; and process_event returns no state that is    *)
(* not written as a source or as a named target of some transition.        *)
(***************************************************************************)
\* The states written as a source or as a named target.
MentionedStates ==
    {StateMentions(Transitions)[i] : i \in 1..Len(StateMentions(Transitions))}

C25_ClosedOverEvents ==
    /\ IsSome(state) =>
          /\ state[1] \in StateVariants
          /\ IsSome(new_state) => new_state[1] \in StateVariants
    /\ pc = "expanded" =>
          /\ \A k \in 1..Len(Checks) :
                Checks[k].target_state.kind = "State" =>
                    Checks[k].target_state.ident \in StateVariants
          /\ \A s \in StateVariants, e \in EventVariants :
                IsSome(process_event(Checks, s, e)) =>
                    process_event(Checks, s, e)[1] \in StateVariants \cap MentionedStates

\* The caller has stored a state other than the default, and the next call
\* has returned the default state again.
C25_Witness ==
    /\ Emitted
    /\ IsSome(state)
    /\ state[1] # expanded[1].default
    /\ IsSome(event)
    /\ new_state = Some(expanded[1].default)
    /\ Transitions[Earliest(state[1], event[1])].target.kind = "State"

(***************************************************************************)
(* C26.  A header clause given more than once before `transitions` is      *)
(* accepted without a diagnostic, and the last one wins: when the input is *)
(* well-formed header clauses followed by a well-formed `transitions`      *)
(* block, it parses, and the name and the derive lists of the spec are     *)
(* those of the last clause of each kind (none when there is no such       *)
(* clause).                                                                *)
(***************************************************************************)
\* The value of a header clause: an identifier or a list of identifiers.
HeaderValue(tokens) ==
    IF tokens[1] = Id("name") THEN tokens[3].v
    ELSE ParseTerminatedIdents(tokens[3].s, <<>>).val

\* The value of the last `clause` among the leading header clauses.
RECURSIVE LastHeader(_, _, _)
LastHeader(tokens, clause, seen) ==
    IF HeaderClauseAt(tokens)
    THEN LastHeader(SkipComma(Rest(tokens, 3)), clause,
                    IF tokens[1].v = clause THEN Some(HeaderValue(tokens)) ELSE seen)
    ELSE seen

\* How many of the leading header clauses are `clause`.
RECURSIVE CountHeader(_, _)
CountHeader(tokens, clause) ==
    IF HeaderClauseAt(tokens)
    THEN (IF tokens[1].v = clause THEN 1 ELSE 0)
            + CountHeader(SkipComma(Rest(tokens, 3)), clause)
    ELSE 0

\* Header clauses, then a `transitions` block of well-formed rules, then
\* nothing.
HeadersThenTransitions ==
    /\ Len(input) > 0
    /\ ThroughTransitions(input, 0) = Len(input)
    /\ ParseTransitionsBlock(<<input[Len(input)]>>).ok

C26_LastHeaderWins ==
    (pc # "parse" /\ HeadersThenTransitions) =>
        /\ IsSome(state_machine)
        /\ \A d \in 1..Len(diagnostics) : diagnostics[d].kind \notin ParseErrors
        /\ state_machine[1].name = LastHeader(input, "name", None)
        /\ state_machine[1].derive_states = LastHeader(input, "derive_states", None)
        /\ state_machine[1].derive_events = LastHeader(input, "derive_events", None)

\* `name` was given twice with different identifiers and the types carry
\* the second one.
C26_Witness ==
    /\ pc = "expanded"
    /\ HeadersThenTransitions
    /\ CountHeader(input, "name") = 2
    /\ input[3] = Id("Q")
    /\ state_machine[1].name = Some("P")
    /\ expanded[1].state_enum.name = "PState"
    /\ diagnostics = <<>>

\* `derive_states` was given twice and the second list is the one kept.
C26_WitnessDerives ==
    /\ pc = "expanded"
    /\ HeadersThenTransitions
    /\ CountHeader(input, "derive_states") = 2
    /\ input[3] = Bracket(<<Id("Debug"), P(","), Id("Clone")>>)
    /\ expanded[1].state_enum.derives = <<"Debug">>

====
